---- MODULE Spec2Model ----
(***************************************************************************)
(* Acoustic TDOA geolocation: the detector node (main.py), the aggregation *)
(* server (tdoa_server.py: run_server, generate_map) and the hyperbola     *)
(* engine (compute_hyperbola_local).                                       *)
(*                                                                         *)
(* Number representation.  The program computes in double precision; the  *)
(* model computes in integers with fixed units:                            *)
(*   latitude, longitude   micro-degrees                                   *)
(*   lengths (x, y, d, a)  decimetres                                      *)
(*   delta_t               deciseconds   (timestamps stay in nanoseconds)  *)
(*   v                     343 m/s = 343 dm per decisecond                 *)
(*   cos, cosh, sinh, u    scaled by 1000                                  *)
(*   cos_theta, sin_theta  scaled by 10000                                 *)
(* Every division rounds to nearest, symmetrically in the sign (RDiv), as  *)
(* floating-point arithmetic is symmetric in the sign.                     *)
(***************************************************************************)
EXTENDS Integers, Sequences, FiniteSets, TLC

(***************************************************************************)
(* Arithmetic helpers.                                                     *)
(***************************************************************************)
Abs(x) == IF x < 0 THEN -x ELSE x

\* x / y rounded to nearest, y > 0, symmetric in the sign of x
RDiv(x, y) == IF x < 0 THEN -(((-x) + y \div 2) \div y) ELSE (x + y \div 2) \div y

RECURSIVE SqrtSearch(_, _, _)
SqrtSearch(n, lo, hi) ==
    IF lo >= hi THEN lo
    ELSE LET mid == (lo + hi + 1) \div 2
         IN  IF mid * mid <= n THEN SqrtSearch(n, mid, hi) ELSE SqrtSearch(n, lo, mid - 1)

\* floor of the square root, 0 <= n < 2^31
ISqrt(n) == SqrtSearch(n, 0, 46340)

\* np.hypot
hypot(x, y) == ISqrt(x * x + y * y)

\* np.radians: micro-degrees to micro-radians (pi / 180 = 0.017453)
radians(x) == RDiv(x * 17453, 1000000)

\* np.cos of an angle in micro-radians, scaled by 1000; second-order series,
\* for the small angles (|x| < 46000) the short baselines of the model give
cos(x) == 1000 - RDiv(x * x, 2000000000)

RECURSIVE SeriesSum(_, _, _, _)
\* term + the following terms of the cosh (j = 1) or sinh (j = 2) series,
\* term_{k+1} = term_k * u^2 / (j * (j + 1)), until the terms vanish
SeriesSum(term, usq, j, left) ==
    IF left = 0 \/ term = 0 THEN 0
    ELSE term + SeriesSum(RDiv(term * usq, 1000 * j * (j + 1)), usq, j + 2, left - 1)

\* np.cosh, np.sinh: argument and result scaled by 1000, |u| <= 3000
cosh(u) == SeriesSum(1000, RDiv(u * u, 1000), 1, 12)
sinh(u) == SeriesSum(u, RDiv(u * u, 1000), 2, 12)

\* np.linspace(lo, hi, n)[i], i = 0 .. n-1
linspace(lo, hi, n, i) == IF n = 1 THEN lo ELSE lo + RDiv(i * (hi - lo), n - 1)

(***************************************************************************)
(* compute_hyperbola_local                                                 *)
(***************************************************************************)
\* default of the parameter num_points
num_points == 1000

\* u_max = np.arccosh(10) = 2.993, scaled by 1000
u_max == 2993

\* metres per degree of latitude, mean_lat in micro-radians
m_per_deg_lat(mean_lat) ==
    RDiv(111133 * 1000 - 560 * cos(2 * mean_lat) + 1 * cos(4 * mean_lat)
         - 0 * cos(6 * mean_lat), 1000)

\* metres per degree of longitude
m_per_deg_lon(mean_lat) ==
    RDiv(111413 * cos(mean_lat) - 94 * cos(3 * mean_lat) + 0 * cos(5 * mean_lat), 1000)

\* degrees to local metres: micro-degrees * (m / degree) -> decimetres
ToLocal(ddeg, m_per_deg) == RDiv(ddeg * m_per_deg, 100000)

\* local metres back to degrees: decimetres / (m / degree) -> micro-degrees
ToDegrees(x, m_per_deg) == RDiv(x * 1000, RDiv(m_per_deg, 100))

\* u = np.linspace(-u_max, u_max, num_points), and np.cosh(u), np.sinh(u)
u_grid == [i \in 1..num_points |-> linspace(-u_max, u_max, num_points, i - 1)]
cosh_u == [i \in 1..num_points |-> cosh(u_grid[i])]
sinh_u == [i \in 1..num_points |-> sinh(u_grid[i])]

\* the local frame of the pair: receiver 1 at the origin, receiver 2 at (x2, y2),
\* d the distance between them
Frame(R1_latlon, R2_latlon) ==
    LET lat1 == R1_latlon[1]
        lon1 == R1_latlon[2]
        lat2 == R2_latlon[1]
        lon2 == R2_latlon[2]
        mean_lat == radians(RDiv(lat1 + lat2, 2))
        mlat == m_per_deg_lat(mean_lat)
        mlon == m_per_deg_lon(mean_lat)
        x2 == ToLocal(lon2 - lon1, mlon)
        y2 == ToLocal(lat2 - lat1, mlat)
    IN  [m_per_deg_lat |-> mlat, m_per_deg_lon |-> mlon,
         x2 |-> x2, y2 |-> y2, d |-> hypot(x2, y2)]

\* variant of NoRealHyperbola: ">=" for ">"
NoRealHyperbolaOrEqual(R1_latlon, R2_latlon, delta_t, speed) ==
    Abs(delta_t * speed) >= Frame(R1_latlon, R2_latlon).d

\* "if abs(delta_d) > d: raise ValueError"
NoRealHyperbola(R1_latlon, R2_latlon, delta_t, speed) ==
    Abs(delta_t * speed) > Frame(R1_latlon, R2_latlon).d

\* the a == 0 branch: point i of the perpendicular bisector, local frame
BisectorPoint(f, i) ==
    LET x0 == RDiv(f.x2, 2)
        y0 == RDiv(f.y2, 2)
        dx == f.x2
        dy == f.y2
    IN  IF dy = 0 THEN <<x0, linspace(y0 - 100000, y0 + 100000, num_points, i - 1)>>
        ELSE IF dx = 0 THEN <<linspace(x0 - 100000, x0 + 100000, num_points, i - 1), y0>>
        ELSE LET x == linspace(x0 - 100000, x0 + 100000, num_points, i - 1)
             IN  <<x, RDiv(-dx * (x - x0), dy) + y0>>

\* variant of Hyperbola: the branch is reflected for the other sign of delta_d
HyperbolaReflectedWrong(f, delta_d) ==
    [a2 |-> Abs(delta_d),
     b2 |-> ISqrt(f.x2 * f.x2 + f.y2 * f.y2 - delta_d * delta_d),
     x0 |-> RDiv(f.x2, 2),
     y0 |-> RDiv(f.y2, 2),
     cos_theta |-> RDiv(f.x2 * 10000, f.d),
     sin_theta |-> RDiv(f.y2 * 10000, f.d),
     reflect |-> delta_d > 0]

\* the regular branch: a, b and the rotation of the hyperbola
\* (a2 = 2 * a, b2 = 2 * b = 2 * sqrt(c^2 - a^2), c = d / 2)
Hyperbola(f, delta_d) ==
    [a2 |-> Abs(delta_d),
     b2 |-> ISqrt(f.x2 * f.x2 + f.y2 * f.y2 - delta_d * delta_d),
     x0 |-> RDiv(f.x2, 2),
     y0 |-> RDiv(f.y2, 2),
     cos_theta |-> RDiv(f.x2 * 10000, f.d),
     sin_theta |-> RDiv(f.y2 * 10000, f.d),
     reflect |-> delta_d < 0]

\* the regular branch: point i of the hyperbola branch, local frame
BranchPoint(h, i) ==
    LET xp == RDiv(h.a2 * cosh_u[i], 2000)
        y_prime == RDiv(h.b2 * sinh_u[i], 2000)
        x_prime == IF h.reflect THEN -xp ELSE xp
        x_rotated == RDiv(x_prime * h.cos_theta - y_prime * h.sin_theta, 10000)
        y_rotated == RDiv(x_prime * h.sin_theta + y_prime * h.cos_theta, 10000)
    IN  <<x_rotated + h.x0, y_rotated + h.y0>>

\* the value or the exception of compute_hyperbola_local(R1, R2, delta_t, v),
\* num_points at its default as in the call of generate_map
compute_hyperbola_local(R1_latlon, R2_latlon, delta_t, speed) ==
    LET f == Frame(R1_latlon, R2_latlon)
        delta_d == delta_t * speed
        h == Hyperbola(f, delta_d)
        xy == [i \in 1..num_points |->
                 IF delta_d = 0 THEN BisectorPoint(f, i) ELSE BranchPoint(h, i)]
    IN  IF NoRealHyperbola(R1_latlon, R2_latlon, delta_t, speed)
        THEN [raised |-> "ValueError", lats |-> <<>>, lons |-> <<>>]
        ELSE [raised |-> "none",
              lats |-> [i \in 1..num_points |->
                          ToDegrees(xy[i][2], f.m_per_deg_lat) + R1_latlon[1]],
              lons |-> [i \in 1..num_points |->
                          ToDegrees(xy[i][1], f.m_per_deg_lon) + R1_latlon[2]]]

(***************************************************************************)
(* State.                                                                  *)
(***************************************************************************)
VARIABLES
    \* run_server
    s_state,        \* "listening" in the receive loop, "closed" after server.close()
    received_data,  \* the dict received_data: <<[host, msg], ...>> in insertion order
    log_line,       \* which message run_server printed last
    passes,         \* how many times generate_map has been called
    last_pass,      \* what the call of generate_map that returned did
    last_report,    \* history: per roster identity, the last report received for it
    all_complete,   \* history: every datagram so far was a report with all four fields
    overwrote,      \* history: some report replaced an earlier, different one of its identity
    \* the detector node (main.py)
    n_pc,           \* "start", "listening", "detected", "plotting", "stopped", "aborted"
    n_blocks,       \* how many blocks stream.read has returned
    n_magnitude,    \* magnitude[target_index] of the last block
    n_detected,     \* history: a block exceeded the threshold
    n_sends,        \* how many times sock.sendto has been called
    n_interrupted,  \* KeyboardInterrupt was raised
    stream_open,    \* the audio stream is open
    sock_open,      \* the node's socket is open
    net,            \* the datagrams sent to (SERVER_IP, SERVER_PORT) and not yet received
    \* compute_hyperbola_local on its own
    e_args,         \* the arguments of the call
    e_ret           \* what the call returned or raised

server_vars ==
    <<s_state, received_data, log_line, passes, last_pass, last_report, all_complete, overwrote>>
node_vars ==
    <<n_pc, n_blocks, n_magnitude, n_detected, n_sends, n_interrupted, stream_open, sock_open, net>>
engine_vars == <<e_args, e_ret>>
vars == <<server_vars, node_vars, engine_vars>>

(***************************************************************************)
(* Bounds of the inputs.                                                   *)
(***************************************************************************)
\* engine: coordinates are 0 .. MaxDeg thousandths of a degree
MaxDeg == 2
\* engine: time differences are -MaxDt .. MaxDt tenths of a second
MaxDt == 5
\* server and node: places and times are those of the first MaxPayloads of PayloadList
MaxPayloads == 5
\* server: generate_map is called at most MaxPasses times
MaxPasses == 2
\* node: at most MaxBlocks blocks are read
MaxBlocks == 4

Degrees == {1000 * k : k \in 0..MaxDeg}
LatLons == Degrees \X Degrees

\* what a report may carry: a place in micro-degrees and a time in nanoseconds
PayloadList ==
    <<[lat |-> 0, lon |-> 0, time |-> 0],
      [lat |-> 0, lon |-> 0, time |-> 400000000],
      [lat |-> 1000, lon |-> 1000, time |-> 400000000],
      [lat |-> 1000, lon |-> 1000, time |-> 0],
      [lat |-> 0, lon |-> 1000, time |-> 800000000],
      [lat |-> 0, lon |-> 1000, time |-> 0],
      [lat |-> 1000, lon |-> 0, time |-> 400000000]>>
Payloads == {PayloadList[k] : k \in 1..MaxPayloads}
Sites == {<<p.lat, p.lon>> : p \in Payloads}
Times == {p.time : p \in Payloads}

(***************************************************************************)
(* Datagrams.  A datagram is its bytes' encoding and the text they encode; *)
(* the text is plain, or the JSON text of an array or of an object with    *)
(* the given members.                                                      *)
(***************************************************************************)
\* expected_receivers in run_server
expected_receivers == <<"reciever1", "reciever2", "reciever3">>
Roster == {expected_receivers[k] : k \in 1..Len(expected_receivers)}

Restrict(f, S) == [k \in S |-> f[k]]

JsonObject(members) ==
    [encoding |-> "utf-8", text |-> [syntax |-> "json", type |-> "object", members |-> members]]

Report(hostname, p) ==
    JsonObject([hostname |-> hostname, lat |-> p.lat, lon |-> p.lon, time |-> p.time])

Required == {"hostname", "lat", "lon", "time"}

\* the report without the member k
Without(d, k) == JsonObject(Restrict(d.text.members, DOMAIN d.text.members \ {k}))

FullReports == {Report(h, p) : h \in Roster, p \in Payloads}

OtherReports ==
    {Report("Reciever1", PayloadList[3]), Report("intruder", PayloadList[1]),
     Report("intruder", PayloadList[2])}

PartialReports ==
    {Without(Report(h, PayloadList[1]), k) : h \in Roster \cup {"intruder"}, k \in Required}

Undecodable ==
    {[encoding |-> "invalid", text |-> [syntax |-> "none"]],
     [encoding |-> "utf-8", text |-> [syntax |-> "plain"]],
     [encoding |-> "utf-8", text |-> [syntax |-> "json", type |-> "array"]]}

Datagrams == FullReports \cup OtherReports \cup PartialReports \cup Undecodable

\* str.lower on the host names of the model
lower(s) == IF s = "Reciever1" THEN "reciever1" ELSE s

\* the outcome of data.decode("utf-8") and json.loads(msg)
decode(d) == IF d.encoding = "utf-8" THEN "ok" ELSE "UnicodeDecodeError"
json_loads(text) == IF text.syntax = "json" THEN "ok" ELSE "JSONDecodeError"

\* a report with all four required members
IsCompleteReport(d) ==
    /\ decode(d) = "ok"
    /\ json_loads(d.text) = "ok"
    /\ d.text.type = "object"
    /\ Required \subseteq DOMAIN d.text.members

(***************************************************************************)
(* The dict received_data.                                                 *)
(***************************************************************************)
Has(rd, h) == \E i \in 1..Len(rd) : rd[i].host = h
\* variant of DictSet: received_data.setdefault(host, json_msg), the first report stays
DictSetDefault(rd, h, m) ==
    IF Has(rd, h) THEN rd ELSE Append(rd, [host |-> h, msg |-> m])

\* received_data[host] = json_msg: a present key keeps its place
DictSet(rd, h, m) ==
    IF Has(rd, h)
    THEN [i \in 1..Len(rd) |-> IF rd[i].host = h THEN [host |-> h, msg |-> m] ELSE rd[i]]
    ELSE Append(rd, [host |-> h, msg |-> m])

(***************************************************************************)
(* generate_map                                                            *)
(***************************************************************************)
\* v in generate_map
v == 343

colors == <<"red", "blue", "green">>

RECURSIVE AdjacentPairs(_, _, _)
\* variant of combinations: zip(names, names[1:]), the neighbouring pairs only
AdjacentPairs(i, j, n) ==
    IF i >= n THEN <<>> ELSE <<<<i, i + 1>>>> \o AdjacentPairs(i + 1, i + 2, n)

RECURSIVE combinations(_, _, _)
\* itertools.combinations(range(1, n + 1), 2) from the pair (i, j) on
combinations(i, j, n) ==
    IF i >= n THEN <<>>
    ELSE IF j > n THEN combinations(i + 1, i + 2, n)
    ELSE <<<<i, j>>>> \o combinations(i, j + 1, n)

\* (time_ref - time_non) / 1_000_000_000: nanoseconds to seconds (here tenths)
DeltaT(time_ref, time_non) == RDiv(time_ref - time_non, 100000000)

RECURSIVE PairLoop(_, _, _, _, _)
\* the loop over receiver_pairs from index idx (1-based) on
PairLoop(receiver_data, receiver_pairs, idx, hyperbola_list, calls) ==
    IF idx > Len(receiver_pairs)
    THEN [raised |-> "none", hyperbola_list |-> hyperbola_list, calls |-> calls]
    ELSE
      LET ref == receiver_data[receiver_pairs[idx][1]]
          non_ref == receiver_data[receiver_pairs[idx][2]]
      IN  IF ~({"time", "lat", "lon"} \subseteq (DOMAIN ref.msg \cap DOMAIN non_ref.msg))
          THEN [raised |-> "KeyError", hyperbola_list |-> <<>>, calls |-> <<>>]
          ELSE
            LET delta_t == DeltaT(ref.msg.time, non_ref.msg.time)
                R_ref_latlon == <<ref.msg.lat, ref.msg.lon>>
                R_non_latlon == <<non_ref.msg.lat, non_ref.msg.lon>>
                \* what the call of compute_hyperbola_local raises; on return the
                \* curve has num_points points
                raised == IF NoRealHyperbola(R_ref_latlon, R_non_latlon, delta_t, v)
                          THEN "ValueError" ELSE "none"
                call == [pair |-> <<ref.host, non_ref.host>>, R_ref_latlon |-> R_ref_latlon,
                         R_non_latlon |-> R_non_latlon, delta_t |-> delta_t,
                         raised |-> raised]
                hyper == [pair |-> <<ref.host, non_ref.host>>,
                          points |-> num_points,
                          color |-> colors[((idx - 1) % Len(colors)) + 1]]
            IN  PairLoop(receiver_data, receiver_pairs, idx + 1,
                         IF raised = "ValueError" THEN hyperbola_list
                         ELSE Append(hyperbola_list, hyper),
                         Append(calls, call))

NoPass == [raised |-> "none", calls |-> <<>>, polylines |-> <<>>, markers |-> <<>>, saved |-> FALSE]

\* generate_map(receiver_data): the exception it raises, the calls of the engine it
\* made, and what it handed to the map (the polylines, the markers, m.save)
generate_map(receiver_data) ==
    LET num_receivers == Len(receiver_data)
        loop == PairLoop(receiver_data, combinations(1, 2, num_receivers), 1, <<>>, <<>>)
    IN  IF num_receivers < 2 THEN [NoPass EXCEPT !.raised = "ValueError"]
        ELSE IF loop.raised # "none" THEN [NoPass EXCEPT !.raised = loop.raised]
        ELSE IF loop.hyperbola_list = <<>> THEN [NoPass EXCEPT !.calls = loop.calls]
        ELSE [raised |-> "none", calls |-> loop.calls, polylines |-> loop.hyperbola_list,
              markers |-> [i \in 1..num_receivers |-> receiver_data[i].host],
              saved |-> TRUE]

(***************************************************************************)
(* run_server                                                              *)
(***************************************************************************)
NoReport == [none |-> TRUE]

ServerInit ==
    /\ s_state = "listening"
    /\ received_data = <<>>
    /\ log_line = "Listening"
    /\ passes = 0
    /\ last_pass = NoPass
    /\ last_report = [h \in Roster |-> NoReport]
    /\ all_complete = TRUE
    /\ overwrote = FALSE

\* variant of AllReceived: any(...) for all(...)
AnyReceived(rd) == \E k \in 1..Len(expected_receivers) : Has(rd, expected_receivers[k])

\* "all(rec in received_data for rec in expected_receivers)"
AllReceived(rd) == \A k \in 1..Len(expected_receivers) : Has(rd, expected_receivers[k])

\* the history of the reports: the last report received per roster identity
IsRosterReport(d) ==
    /\ decode(d) = "ok"
    /\ json_loads(d.text) = "ok"
    /\ d.text.type = "object"
    /\ "hostname" \in DOMAIN d.text.members
    /\ lower(d.text.members.hostname) \in Roster

Remember(d) ==
    /\ all_complete' = (all_complete /\ IsCompleteReport(d))
    /\ IF IsRosterReport(d)
       THEN LET h == lower(d.text.members.hostname)
            IN  /\ last_report' = [last_report EXCEPT ![h] = d.text.members]
                /\ overwrote' = (overwrote \/ last_report[h] \notin {NoReport, d.text.members})
       ELSE UNCHANGED <<last_report, overwrote>>

\* variant of Known: the roster is not consulted
KnownAlways(host) == TRUE

\* "host not in expected_receivers" is false
Known(host) == host \in Roster

\* one iteration of the while loop on the datagram d, what follows the loop included
Iteration(d) ==
    IF decode(d) # "ok" THEN
        \* UnicodeDecodeError: except Exception
        /\ log_line' = "Error processing data"
        /\ UNCHANGED <<s_state, received_data, passes, last_pass>>
    ELSE IF json_loads(d.text) # "ok" THEN
        \* except json.JSONDecodeError
        /\ log_line' = "Received invalid JSON"
        /\ UNCHANGED <<s_state, received_data, passes, last_pass>>
    ELSE IF d.text.type # "object" THEN
        \* json_msg['hostname'] of a list: TypeError, except Exception
        /\ log_line' = "Error processing data"
        /\ UNCHANGED <<s_state, received_data, passes, last_pass>>
    ELSE IF "hostname" \notin DOMAIN d.text.members THEN
        \* except KeyError
        /\ log_line' = "Missing key"
        /\ UNCHANGED <<s_state, received_data, passes, last_pass>>
    ELSE
      LET json_msg == d.text.members
          host == lower(json_msg.hostname)
          stored == DictSet(received_data, host, json_msg)
      IN  IF ~Known(host) THEN
              \* continue
              /\ log_line' = "Unknown receiver"
              /\ UNCHANGED <<s_state, received_data, passes, last_pass>>
          ELSE IF ~({"lat", "lon", "time"} \subseteq DOMAIN json_msg) THEN
              \* received_data[host] is set, then the print raises KeyError
              /\ received_data' = stored
              /\ log_line' = "Missing key"
              /\ UNCHANGED <<s_state, passes, last_pass>>
          ELSE IF ~AllReceived(stored) THEN
              /\ received_data' = stored
              /\ log_line' = "Received"
              /\ UNCHANGED <<s_state, passes, last_pass>>
          ELSE
            LET pass == generate_map(stored)
            IN  /\ received_data' = stored
                /\ passes' = passes + 1
                /\ IF pass.raised = "none" THEN
                       \* break, server.close()
                       /\ s_state' = "closed"
                       /\ last_pass' = pass
                       /\ log_line' = "Server closed"
                   ELSE
                       \* the exception of generate_map is caught in the loop
                       /\ log_line' = IF pass.raised = "KeyError" THEN "Missing key"
                                      ELSE "Error processing data"
                       /\ UNCHANGED <<s_state, last_pass>>

\* server.recvfrom returns the datagram d
Receive(d) ==
    /\ s_state = "listening"
    /\ passes < MaxPasses
    /\ Iteration(d)
    /\ Remember(d)

(***************************************************************************)
(* The detector node: main.py                                              *)
(***************************************************************************)
AMPLITUDE_THRESHOLD == 500

\* variant of Detects: ">=" for ">"
DetectsFromThreshold(magnitude) == magnitude >= AMPLITUDE_THRESHOLD

\* "magnitude[target_index] > AMPLITUDE_THRESHOLD"
Detects(magnitude) == magnitude > AMPLITUDE_THRESHOLD

\* the magnitudes of the target bin the blocks of the model have
Magnitudes == {0, AMPLITUDE_THRESHOLD, AMPLITUDE_THRESHOLD + 1}

\* what gpsd.get_current() gives: an exception, or a packet with its mode and place
GpsPackets ==
    {[error |-> TRUE, mode |-> 0, lat |-> 0, lon |-> 0]}
    \cup {[error |-> FALSE, mode |-> m, lat |-> s[1], lon |-> s[2]] : m \in 1..3, s \in Sites}

\* get_gps_fix(): the text gps_stamp
get_gps_fix(packet) ==
    IF ~packet.error /\ packet.mode >= 2
    THEN [fix |-> "Lat, Lon", lat |-> packet.lat, lon |-> packet.lon]
    ELSE [fix |-> "No valid GPS fix"]

\* message.encode(): the text "Frequency detected at: {timestamp}, {gps_stamp}",
\* timestamp the time of day to the microsecond
Message(timestamp_ns, gps_stamp) ==
    [encoding |-> "utf-8",
     text |-> [syntax |-> "plain", timestamp |-> RDiv(timestamp_ns, 1000),
               gps_stamp |-> gps_stamp]]

NodeInit ==
    /\ n_pc = "start"
    /\ n_blocks = 0
    /\ n_magnitude = 0
    /\ n_detected = FALSE
    /\ n_sends = 0
    /\ n_interrupted = FALSE
    /\ stream_open = FALSE
    /\ sock_open = TRUE
    /\ net = {}

\* the finally clause: the stream, the audio interface and the socket are closed
Finally ==
    /\ n_pc' = "stopped"
    /\ stream_open' = FALSE
    /\ sock_open' = FALSE

\* gpsd.connect() and audio.open() succeed
NodeStart ==
    /\ n_pc = "start"
    /\ n_pc' = "listening"
    /\ stream_open' = TRUE
    /\ UNCHANGED <<n_blocks, n_magnitude, n_detected, n_sends, n_interrupted, sock_open, net>>

\* gpsd.connect() fails: exit(1); or audio.open() raises
NodeStartFails ==
    /\ n_pc = "start"
    /\ n_pc' = "aborted"
    /\ UNCHANGED <<n_blocks, n_magnitude, n_detected, n_sends, n_interrupted, stream_open,
                   sock_open, net>>

\* one iteration of the loop up to the test of the threshold
NodeBlock(magnitude) ==
    /\ n_pc = "listening"
    /\ n_blocks < MaxBlocks
    /\ n_blocks' = n_blocks + 1
    /\ n_magnitude' = magnitude
    /\ n_detected' = Detects(magnitude)
    /\ n_pc' = IF Detects(magnitude) THEN "detected" ELSE "listening"
    /\ UNCHANGED <<n_sends, n_interrupted, stream_open, sock_open, net>>

\* stream.read raises: the exception leaves the loop through the finally clause
NodeReadFails ==
    /\ n_pc = "listening"
    /\ Finally
    /\ UNCHANGED <<n_blocks, n_magnitude, n_detected, n_sends, n_interrupted, net>>

\* the detection branch up to sock.sendto, which sends the datagram or raises
NodeSend(timestamp_ns, packet, sent) ==
    /\ n_pc = "detected"
    /\ n_sends' = n_sends + 1
    /\ IF sent
       THEN /\ net' = net \cup {Message(timestamp_ns, get_gps_fix(packet))}
            /\ n_pc' = "plotting"
            /\ UNCHANGED <<stream_open, sock_open>>
       ELSE /\ Finally
            /\ UNCHANGED net
    /\ UNCHANGED <<n_blocks, n_magnitude, n_detected, n_interrupted>>

\* plt.show() returns: break, finally
NodePlotted ==
    /\ n_pc = "plotting"
    /\ Finally
    /\ UNCHANGED <<n_blocks, n_magnitude, n_detected, n_sends, n_interrupted, net>>

\* KeyboardInterrupt anywhere in the try block: except, finally
NodeInterrupt ==
    /\ n_pc \in {"listening", "detected", "plotting"}
    /\ n_interrupted' = TRUE
    /\ Finally
    /\ UNCHANGED <<n_blocks, n_magnitude, n_detected, n_sends, net>>

NodeStep ==
    \/ NodeStart
    \/ NodeStartFails
    \/ \E magnitude \in Magnitudes : NodeBlock(magnitude)
    \/ NodeReadFails
    \/ \E timestamp_ns \in Times, packet \in GpsPackets, sent \in BOOLEAN :
          NodeSend(timestamp_ns, packet, sent)
    \/ NodePlotted
    \/ NodeInterrupt

(***************************************************************************)
(* The server on its own: any datagram may arrive.                         *)
(***************************************************************************)
EngineIdle ==
    /\ e_args = <<>>
    /\ e_ret = <<>>

Init == ServerInit /\ NodeInit /\ EngineIdle

Next == \E d \in Datagrams : Receive(d) /\ UNCHANGED <<node_vars, engine_vars>>

Spec == Init /\ [][Next]_vars

(***************************************************************************)
(* The node and the server: the server receives what the node sends.       *)
(***************************************************************************)
Deliver ==
    \E d \in net : Receive(d) /\ net' = net \ {d}
                   /\ UNCHANGED <<n_pc, n_blocks, n_magnitude, n_detected, n_sends,
                                  n_interrupted, stream_open, sock_open>>

NodeNext ==
    \/ NodeStep /\ UNCHANGED <<server_vars, engine_vars>>
    \/ Deliver /\ UNCHANGED engine_vars

\* the detection branch is straight-line code, and the plot window is closed
NodeSpec ==
    /\ Init
    /\ [][NodeNext]_vars
    /\ WF_vars(\E timestamp_ns \in Times, packet \in GpsPackets, sent \in BOOLEAN :
                  NodeSend(timestamp_ns, packet, sent) /\ UNCHANGED <<server_vars, engine_vars>>)
    /\ WF_vars(NodePlotted /\ UNCHANGED <<server_vars, engine_vars>>)

(***************************************************************************)
(* The engine on its own: every call with arguments from the bounded sets. *)
(***************************************************************************)
EngineInit ==
    /\ ServerInit
    /\ NodeInit
    /\ e_args \in LatLons \X LatLons \X ((-MaxDt)..MaxDt)
    /\ e_ret = <<>>

\* the call compute_hyperbola_local(R_ref_latlon, R_non_latlon, delta_t, v)
EngineCall ==
    /\ e_ret = <<>>
    /\ e_ret' = compute_hyperbola_local(e_args[1], e_args[2], e_args[3], v)
    /\ UNCHANGED <<e_args, server_vars, node_vars>>

EngineNext == EngineCall

EngineSpec == EngineInit /\ [][EngineNext]_vars

(***************************************************************************)
(* Properties of run_server and generate_map.                              *)
(***************************************************************************)
UnorderedPairs == {<<g, h>> \in Roster \X Roster : g # h}

CallFor(g, h) == {k \in 1..Len(last_pass.calls) : last_pass.calls[k].pair \in {<<g, h>>, <<h, g>>}}

\* the call used the last reports of its two identities
UsesLastReports(call) ==
    LET ref == last_report[call.pair[1]]
        non_ref == last_report[call.pair[2]]
    IN  /\ call.R_ref_latlon = <<ref.lat, ref.lon>>
        /\ call.R_non_latlon = <<non_ref.lat, non_ref.lon>>
        /\ call.delta_t = DeltaT(ref.time, non_ref.time)

\* C1: when every received datagram is a report with hostname, lat, lon and time,
\* generate_map is called exactly once, namely when the last roster identity has
\* reported, and each call of the engine in it uses the last report received for
\* each of its two identities.
C1_OnePassOnLastReports ==
    all_complete =>
        /\ passes <= 1
        /\ (passes = 1) = (s_state = "closed")
        /\ (\A h \in Roster : last_report[h] # NoReport) = (s_state = "closed")
        /\ s_state = "closed" =>
              /\ \A p \in UnorderedPairs : Cardinality(CallFor(p[1], p[2])) = 1
              /\ \A k \in 1..Len(last_pass.calls) : UsesLastReports(last_pass.calls[k])

\* C1 witness: the pass has run after reports arrived out of roster order and one
\* identity reported twice with different contents
C1_Witness ==
    /\ all_complete
    /\ s_state = "closed"
    /\ overwrote
    /\ received_data[1].host = "reciever3"

\* C2: a datagram that is not a report with all four required fields leaves
\* received_data as it was.
C2_MalformedLeavesRegistry ==
    [][\A d \in Datagrams :
          (~IsCompleteReport(d) /\ Receive(d)) => received_data' = received_data]_vars

\* a report (a JSON object with a hostname) whose identity is not in the roster
IsUnknownReport(d) ==
    /\ decode(d) = "ok"
    /\ json_loads(d.text) = "ok"
    /\ d.text.type = "object"
    /\ "hostname" \in DOMAIN d.text.members
    /\ lower(d.text.members.hostname) \notin Roster

\* C3: a report whose identity is not in the roster changes neither received_data
\* nor the completion predicate, starts no pass, and leaves the server receiving.
C3_UnknownIdentityDiscarded ==
    [][\A d \in Datagrams :
          (IsUnknownReport(d) /\ Receive(d)) =>
              /\ received_data' = received_data
              /\ AllReceived(received_data') = AllReceived(received_data)
              /\ passes' = passes
              /\ last_pass' = last_pass
              /\ s_state' = "listening"]_vars

\* C3 witness: an unknown report was processed while reports were already stored
C3_Witness ==
    /\ log_line = "Unknown receiver"
    /\ Len(received_data) = 2
    /\ s_state = "listening"

\* C4: whenever received_data covers the roster, the server has run the pass and
\* is closed.
C4_CompleteRegistryCloses == AllReceived(received_data) => s_state = "closed"

\* C5: the receive loop is left only when every roster identity has an entry in
\* received_data and generate_map has been called and has returned.
C5_ExitOnlyOnCompletion ==
    s_state = "closed" =>
        /\ \A h \in Roster : Has(received_data, h)
        /\ passes >= 1
        /\ last_pass # NoPass
        /\ log_line = "Server closed"

\* C5 witness: the server closed after datagrams that were not complete reports
C5_Witness ==
    /\ s_state = "closed"
    /\ ~all_complete
    /\ passes = 2

\* the calls of the pass whose pair has no real hyperbola
InvalidCalls ==
    {k \in 1..Len(last_pass.calls) :
        LET c == last_pass.calls[k]
        IN  Abs(c.delta_t * v) > Frame(c.R_ref_latlon, c.R_non_latlon).d}

\* C7: in the pass, the engine is called for every unordered pair of identities,
\* the pairs handed to the map are exactly those without a domain error, in the
\* order of the calls, and with one invalid pair of three the other two are handed on.
C7_InvalidPairSkippedAlone ==
    s_state = "closed" =>
        /\ \A p \in UnorderedPairs : Cardinality(CallFor(p[1], p[2])) = 1
        /\ Len(last_pass.calls) = 3
        /\ {last_pass.polylines[k].pair : k \in 1..Len(last_pass.polylines)}
             = {last_pass.calls[k].pair : k \in (1..Len(last_pass.calls)) \ InvalidCalls}
        /\ Len(last_pass.polylines) = 3 - Cardinality(InvalidCalls)
        /\ \A k \in 1..Len(last_pass.polylines) : last_pass.polylines[k].points = num_points
        /\ last_pass.saved = (Cardinality(InvalidCalls) < 3)
        /\ Cardinality(InvalidCalls) = 1 => Len(last_pass.polylines) = 2

\* C7 witness: a pass with exactly one invalid pair, the first, and two curves on the map
C7_Witness ==
    /\ s_state = "closed"
    /\ InvalidCalls = {1}
    /\ Len(last_pass.polylines) = 2
    /\ last_pass.saved

(***************************************************************************)
(* Properties of compute_hyperbola_local.                                  *)
(***************************************************************************)
\* the frame of the call in e_args
CallFrame == Frame(e_args[1], e_args[2])

Returned == e_ret # <<>>

\* C8: the call raises the domain error and returns no points exactly when
\* |delta_t * v| exceeds the projected distance of the receivers; otherwise it
\* returns num_points latitudes and longitudes.
C8_DomainErrorOrAllPoints ==
    Returned =>
        LET delta_d == e_args[3] * v
            dsq == CallFrame.x2 * CallFrame.x2 + CallFrame.y2 * CallFrame.y2
        IN  IF delta_d * delta_d > dsq
            THEN /\ e_ret.raised = "ValueError"
                 /\ e_ret.lats = <<>>
                 /\ e_ret.lons = <<>>
            ELSE /\ e_ret.raised = "none"
                 /\ Len(e_ret.lats) = num_points
                 /\ Len(e_ret.lons) = num_points

\* C8 witness: |delta_t * v| equal to the distance, and the points returned
C8_Witness ==
    /\ Returned
    /\ Abs(e_args[3] * v) = CallFrame.d
    /\ e_ret.raised = "none"

\* the returned coordinate (lat, lon) in the local frame f of the call, decimetres
LocalXY(f, lat, lon) ==
    <<RDiv((lon - e_args[1][2]) * RDiv(f.m_per_deg_lon, 100), 1000),
      RDiv((lat - e_args[1][1]) * RDiv(f.m_per_deg_lat, 100), 1000)>>

\* (p - midpoint) . (B - A), doubled: positive on the side of B, negative on that of A
Side(f, p) == (2 * p[1] - f.x2) * f.x2 + (2 * p[2] - f.y2) * f.y2

\* p and q are mirror images across the perpendicular bisector of the baseline,
\* to within 4 dm: their midpoint is on the bisector and p - q is along the baseline
Mirrored(f, p, q) ==
    /\ Abs((p[1] + q[1] - f.x2) * f.x2 + (p[2] + q[2] - f.y2) * f.y2) <= 2 * 4 * f.d
    /\ Abs((p[1] - q[1]) * f.y2 - (p[2] - q[2]) * f.x2) <= 2 * 4 * f.d

\* C9: for delta_t # 0 the returned branch lies on the side of the bisector of the
\* receiver that heard the event first (B for delta_t > 0, A for delta_t < 0), and
\* the call with -delta_t returns its mirror image across the bisector.
C9_BranchOnEarlierSide ==
    (Returned /\ e_ret.raised = "none" /\ e_args[3] # 0) =>
        LET negated == compute_hyperbola_local(e_args[1], e_args[2], -e_args[3], v)
            f == CallFrame
        IN  /\ negated.raised = "none"
            /\ \A i \in 1..num_points :
                  LET p == LocalXY(f, e_ret.lats[i], e_ret.lons[i])
                      q == LocalXY(f, negated.lats[i], negated.lons[i])
                  IN  /\ e_args[3] > 0 => Side(f, p) > 0
                      /\ e_args[3] < 0 => Side(f, p) < 0
                      /\ Mirrored(f, p, q)

\* C9 witness: a branch for a negative delta_t over an oblique baseline
C9_Witness ==
    /\ Returned
    /\ e_ret.raised = "none"
    /\ e_args[3] < 0
    /\ CallFrame.x2 # 0
    /\ CallFrame.y2 # 0

(***************************************************************************)
(* Properties of the detector node.                                        *)
(***************************************************************************)
\* C6: the datagram the node sent, once the server has processed it, is stored in
\* received_data and not rejected.
C6_NodeReportStored ==
    (n_sends = 1 /\ n_pc \in {"plotting", "stopped"} /\ net = {} /\ log_line # "Listening")
        => (received_data # <<>> /\ log_line \in {"Received", "Server closed"})

C10Step ==
    \* blocks are read in Listening only, and none after the detection
    /\ n_blocks' # n_blocks => (n_pc = "listening" /\ ~n_detected /\ n_blocks' = n_blocks + 1)
    \* the detection is the block whose magnitude exceeds the threshold
    /\ n_detected' = (n_blocks' > 0 /\ n_magnitude' > AMPLITUDE_THRESHOLD)
    \* sendto is called at most once, on the detection only, failed or not
    /\ n_sends' <= 1
    /\ n_sends' = 1 => n_detected'
    /\ Cardinality(net') <= n_sends'
    /\ n_sends' # n_sends => n_pc = "detected"
    \* without a detection no datagram is sent
    /\ ~n_detected' => (n_sends' = 0 /\ net' = {})
    \* after the detection the node does not listen again
    /\ n_detected => n_pc' \in {"detected", "plotting", "stopped"}
    \* Stopped: the stream and the socket are released
    /\ n_pc' = "stopped" => (~stream_open' /\ ~sock_open')
    \* a detecting run that is not interrupted has called sendto exactly once
    /\ (n_pc' = "stopped" /\ n_detected' /\ ~n_interrupted') => n_sends' = 1

====
